---------------------------- MODULE Spec2Model ----------------------------
(***************************************************************************)
(* State-machine model of the two camera-driving pages of the attendance   *)
(* front-end and of its routing guard:                                     *)
(*   - the face-capture loop of StudentManagementPage.jsx  (SpecCapture)   *)
(*   - the live streaming loop of AttendanceHubPage.jsx    (SpecStream)    *)
(*   - the routes and ProtectedRoute of App.jsx            (SpecRoute)     *)
(*                                                                         *)
(* Execution is a single-threaded event loop: every handler runs to        *)
(* completion, and what follows an `await` runs as a later task.  One      *)
(* action is one task: a UI handler up to its first await, the             *)
(* continuation of an await, a websocket event, a timer tick.  React       *)
(* state is committed (re-rendered) at the end of the task that set it,    *)
(* except that captureFrame calls may be handled before the re-render      *)
(* that follows them (see Render).                                         *)
(*                                                                         *)
(* null is written 0; ids of students, sessions, camera streams, sockets   *)
(* and timers are positive.  Both pages declare streamRef and videoRef;    *)
(* one page is mounted at a time (App.jsx routes), so the two              *)
(* specifications share those variables and the camera device.             *)
(***************************************************************************)
EXTENDS Naturals, Sequences, FiniteSets

\* ---- bounds of the model ------------------------------------------------
MaxStudents == 2   \* student ids 1..MaxStudents
MaxStreams  == 2   \* camera streams getUserMedia grants in one run
MaxPending  == 2   \* getUserMedia requests awaiting an answer at once
MaxPosts    == 1   \* face submissions in flight at once
MaxCalls    == 4   \* captureFrame calls per capture
MaxSessions == 1   \* attendance sessions the backend creates in one run
MaxReqs     == 2   \* HTTP requests of the hub in flight at once
MaxFetches  == 2   \* log fetches issued in one run
MaxFrames   == 2   \* distinct annotated frames the backend pushes
MaxRedirects == 3  \* <Navigate>s followed in a row

\* ---- program constants --------------------------------------------------
CAPTURE_ANGLES == <<"Front", "Left", "Right", "Look Up">>

VARIABLES
  \* shared: the page instance, the camera device, the refs both pages have
  mounted,        \* the page component is mounted
  streams,        \* streams[s]: "live" | "stopped", one per granted getUserMedia
  gumPending,     \* getUserMedia requests awaiting the user's answer: what the
                  \* continuation reads of its closure (the hub's session id)
  streamRef,      \* streamRef.current
  videoSrc,       \* videoRef.current.srcObject (0: no element, or nothing attached)
  lastOp,         \* the task that ran last
  fx,             \* the outside effects that task performed
  lastMsg,        \* the websocket message that task delivered (NoMsg: none)
  \* StudentManagementPage
  capturing,      \* useState(null): student id
  capturedImages, \* useState([])
  currentAngle,   \* useState(0)
  angleClosure,   \* currentAngle as closed over by the rendered captureFrame
  calls,          \* captureFrame calls since the capture started (history)
  facePosts,      \* POST /students/{id}/face requests in flight
  \* AttendanceHubPage
  session,        \* useState(null): id of the active session
  logs,           \* useState([]): number of the log fetch shown (0: initial [])
  streaming,      \* useState(false)
  summary,        \* useState(null): id of the session summarised
  wsRef,          \* wsRef.current: a socket id
  intervalRef,    \* intervalRef.current: a timer id (the timer that the onopen
                  \* of socket w starts is given the id w)
  sockets,        \* sockets[w]: each WebSocket created: its readyState, the
                  \* session its handlers close over, and the setInterval
                  \* timer its onopen started ("none" | "active" | "cleared")
  feedSrc,        \* feedImgRef.current.src (0: no element, or no frame yet)
  reqs,           \* HTTP requests of the hub in flight
  fetchCount,     \* log fetches issued so far
  dbSession,      \* backend: id of its active session
  sidCount,       \* backend: sessions created so far
  stopped,        \* stopStreaming ran and startStreaming was not called since (history)
  \* App: the router and the auth context
  path,           \* the location the router matches
  user,           \* useAuth().user: "none" (null) or the user's role
  loading,        \* useAuth().loading
  redirects       \* <Navigate>s followed since the last navigation (history)

camVars     == <<mounted, streams, gumPending, streamRef, videoSrc>>
captureVars == <<capturing, capturedImages, currentAngle, angleClosure, calls,
                 facePosts>>
hubVars     == <<session, logs, streaming, summary, wsRef, intervalRef, sockets,
                 feedSrc, reqs, fetchCount, dbSession, sidCount, stopped>>
routeVars   == <<path, user, loading, redirects>>
vars == <<mounted, streams, gumPending, streamRef, videoSrc, lastOp, fx, lastMsg,
          capturing, capturedImages, currentAngle, angleClosure, calls,
          facePosts,
          session, logs, streaming, summary, wsRef, intervalRef, sockets,
          feedSrc, reqs, fetchCount, dbSession, sidCount, stopped,
          path, user, loading, redirects>>

Students == 1..MaxStudents

\* no websocket message: no frame field, no detections
NoMsg == [frame |-> 0, detections |-> 0]

\* ---- helpers --------------------------------------------------------------
RemoveAt(q, i) == [j \in 1..(Len(q) - 1) |-> IF j < i THEN q[j] ELSE q[j + 1]]

LiveStreams == {s \in 1..Len(streams) : streams[s] = "live"}

\* t.stop() on every track of stream s (s = 0: nothing)
StopTracks(s) == [x \in 1..Len(streams) |-> IF x = s THEN "stopped" ELSE streams[x]]


\* The page instances before anything is mounted: every useState and useRef
\* at its initial value.
CaptureFresh ==
  /\ capturing = 0 /\ capturedImages = <<>> /\ currentAngle = 0
  /\ angleClosure = 0 /\ calls = 0 /\ facePosts = <<>>
HubFresh ==
  /\ session = 0 /\ logs = 0 /\ streaming = FALSE /\ summary = 0
  /\ wsRef = 0 /\ intervalRef = 0 /\ sockets = <<>>
  /\ feedSrc = 0 /\ fetchCount = 0
  /\ stopped = FALSE
CameraFresh ==
  /\ mounted = TRUE /\ streams = <<>> /\ gumPending = <<>>
  /\ streamRef = 0 /\ videoSrc = 0

\* The router and the auth context while an admin-only page is shown to an
\* admin.
AdminAt(p) ==
  /\ path = p /\ user = "admin" /\ loading = FALSE /\ redirects = 0

(***************************************************************************)
(*                 StudentManagementPage: face capture                     *)
(***************************************************************************)

\* The page after its first render and its mount effect, loadStudents(),
\* whose GET fills the student table only.
InitCapture ==
  /\ CameraFresh /\ CaptureFresh /\ HubFresh
  /\ AdminAt("/students")
  /\ reqs = <<>> /\ dbSession = 0 /\ sidCount = 0
  /\ lastOp = "mount" /\ fx = {"get"} /\ lastMsg = NoMsg

\* The render that follows the last captureFrame has been committed.
Rendered == angleClosure = currentAngle

\* startCapture(studentId), up to `await getUserMedia`.  The Capture buttons
\* are in the student table, which the capture modal (fixed inset-0) covers
\* while capturing is set.
startCapture(studentId) ==
  /\ mounted /\ capturing = 0 /\ Rendered
  /\ Len(gumPending) < MaxPending
  /\ capturing' = studentId
  /\ capturedImages' = <<>>
  /\ currentAngle' = 0 /\ angleClosure' = 0 /\ calls' = 0
  /\ gumPending' = Append(gumPending, 0)   \* the continuation reads nothing of its closure
  /\ videoSrc' = 0                       \* the modal's <video> is a new element
  /\ lastMsg' = NoMsg /\ lastOp' = "startCapture" /\ fx' = {"getUserMedia"}
  /\ UNCHANGED <<mounted, streams, streamRef, facePosts>>
  /\ UNCHANGED hubVars
  /\ UNCHANGED routeVars

\* startCapture after the await, access granted: the new stream is stored in
\* streamRef whatever it held, and attached if the modal's <video> exists.
startCapture_granted(i) ==
  /\ i \in 1..Len(gumPending)
  /\ Len(streams) < MaxStreams
  /\ streams' = Append(streams, "live")
  /\ streamRef' = Len(streams) + 1
  /\ videoSrc' = IF mounted /\ capturing # 0 THEN Len(streams) + 1 ELSE videoSrc
  /\ gumPending' = RemoveAt(gumPending, i)
  /\ lastMsg' = NoMsg /\ lastOp' = "startCapture.granted" /\ fx' = {}
  /\ UNCHANGED mounted /\ UNCHANGED captureVars /\ UNCHANGED hubVars
  /\ UNCHANGED routeVars

\* startCapture after the await, access denied (the catch block)
startCapture_denied(i) ==
  /\ i \in 1..Len(gumPending)
  /\ gumPending' = RemoveAt(gumPending, i)
  /\ capturing' = IF mounted THEN 0 ELSE capturing
  /\ videoSrc' = 0
  /\ lastMsg' = NoMsg /\ lastOp' = "startCapture.denied" /\ fx' = {"toast.error"}
  /\ UNCHANGED <<mounted, streams, streamRef>>
  /\ UNCHANGED <<capturedImages, currentAngle, angleClosure, calls, facePosts>>
  /\ UNCHANGED hubVars
  /\ UNCHANGED routeVars

\* captureFrame: the Capture button is rendered in the modal while the
\* rendered currentAngle is below CAPTURE_ANGLES.length.  An image is written
\* as the number of the captureFrame call that took it.
\* setCapturedImages takes an updater; setCurrentAngle takes the value
\* computed from the closure's currentAngle.
captureFrame ==
  /\ mounted /\ capturing # 0
  /\ angleClosure < Len(CAPTURE_ANGLES)
  /\ calls < MaxCalls
  /\ capturedImages' = Append(capturedImages, calls + 1)
  /\ currentAngle' = angleClosure + 1
  /\ calls' = calls + 1
  /\ lastMsg' = NoMsg /\ lastOp' = "captureFrame"
  /\ fx' = IF angleClosure + 1 >= Len(CAPTURE_ANGLES) THEN {"toast.success"} ELSE {}
  /\ UNCHANGED <<capturing, angleClosure, facePosts>>
  /\ UNCHANGED camVars /\ UNCHANGED hubVars
  /\ UNCHANGED routeVars

\* React commits the render that follows captureFrame: useCallback's
\* dependency [currentAngle] changed, so captureFrame is created anew.
Render ==
  /\ mounted /\ ~Rendered
  /\ angleClosure' = currentAngle
  /\ lastMsg' = NoMsg /\ lastOp' = "render" /\ fx' = {}
  /\ UNCHANGED <<capturing, capturedImages, currentAngle, calls, facePosts>>
  /\ UNCHANGED camVars /\ UNCHANGED hubVars
  /\ UNCHANGED routeVars

\* stopCapture as it would be without setCurrentAngle(0)
stopCapture_keepsAngle ==
  /\ streams' = IF streamRef # 0 THEN StopTracks(streamRef) ELSE streams
  /\ streamRef' = 0
  /\ IF mounted
       THEN /\ capturing' = 0 /\ capturedImages' = <<>>
            /\ calls' = 0 /\ videoSrc' = 0
            /\ UNCHANGED <<currentAngle, angleClosure>>
       ELSE UNCHANGED <<capturing, capturedImages, currentAngle, angleClosure,
                        calls, videoSrc>>

\* stopCapture: the state it sets (React drops the setters' calls once the
\* component is unmounted; the ref is written all the same).
stopCapture ==
  /\ streams' = IF streamRef # 0 THEN StopTracks(streamRef) ELSE streams
  /\ streamRef' = 0
  /\ IF mounted
       THEN /\ capturing' = 0 /\ capturedImages' = <<>>
            /\ currentAngle' = 0 /\ angleClosure' = 0 /\ calls' = 0
            /\ videoSrc' = 0
       ELSE UNCHANGED <<capturing, capturedImages, currentAngle, angleClosure,
                        calls, videoSrc>>

\* the modal's X button, or a direct call (also with no capture in progress)
stopCapture_click ==
  /\ mounted
  /\ stopCapture
  /\ lastMsg' = NoMsg /\ lastOp' = "stopCapture"
  /\ fx' = IF streamRef # 0 THEN {"track.stop"} ELSE {}
  /\ UNCHANGED <<mounted, gumPending, facePosts>>
  /\ UNCHANGED hubVars
  /\ UNCHANGED routeVars

\* submitFaces as it would be without the capturedImages.length check
submitFaces_noLengthCheck ==
  /\ mounted /\ capturing # 0 /\ Rendered
  /\ Len(facePosts) < MaxPosts
  /\ facePosts' = Append(facePosts, [student |-> capturing, images |-> capturedImages])
  /\ fx' = {"post"}
  /\ lastMsg' = NoMsg /\ lastOp' = "submitFaces"
  /\ UNCHANGED <<capturing, capturedImages, currentAngle, angleClosure, calls>>
  /\ UNCHANGED camVars /\ UNCHANGED hubVars
  /\ UNCHANGED routeVars

\* submitFaces, up to `await api.post`.  The Save button is in the modal;
\* the handler's own length check covers a call with nothing captured.
submitFaces ==
  /\ mounted /\ capturing # 0 /\ Rendered
  /\ IF Len(capturedImages) = 0
       THEN /\ fx' = {"toast.error"}
            /\ UNCHANGED facePosts
       ELSE /\ Len(facePosts) < MaxPosts
            /\ facePosts' = Append(facePosts, [student |-> capturing, images |-> capturedImages])
            /\ fx' = {"post"}
  /\ lastMsg' = NoMsg /\ lastOp' = "submitFaces"
  /\ UNCHANGED <<capturing, capturedImages, currentAngle, angleClosure, calls>>
  /\ UNCHANGED camVars /\ UNCHANGED hubVars
  /\ UNCHANGED routeVars

\* submitFaces after the await, request succeeded: stopCapture(), then
\* loadStudents(), whose GET refreshes the student table only.
submitFaces_ok(i) ==
  /\ i \in 1..Len(facePosts)
  /\ facePosts' = RemoveAt(facePosts, i)
  /\ stopCapture
  /\ lastMsg' = NoMsg /\ lastOp' = "submitFaces.ok"
  /\ fx' = {"toast.success", "get"} \cup (IF streamRef # 0 THEN {"track.stop"} ELSE {})
  /\ UNCHANGED <<mounted, gumPending>>
  /\ UNCHANGED hubVars
  /\ UNCHANGED routeVars

\* the catch block of submitFaces as it would be if it called stopCapture()
submitFaces_failed_stopsCapture(i) ==
  /\ i \in 1..Len(facePosts)
  /\ facePosts' = RemoveAt(facePosts, i)
  /\ stopCapture
  /\ lastMsg' = NoMsg /\ lastOp' = "submitFaces.failed" /\ fx' = {"toast.error"}
  /\ UNCHANGED <<mounted, gumPending>>
  /\ UNCHANGED hubVars
  /\ UNCHANGED routeVars

\* submitFaces after the await, request failed (the catch block)
submitFaces_failed(i) ==
  /\ i \in 1..Len(facePosts)
  /\ facePosts' = RemoveAt(facePosts, i)
  /\ lastMsg' = NoMsg /\ lastOp' = "submitFaces.failed" /\ fx' = {"toast.error"}
  /\ UNCHANGED <<capturing, capturedImages, currentAngle, angleClosure, calls>>
  /\ UNCHANGED camVars /\ UNCHANGED hubVars
  /\ UNCHANGED routeVars

\* Navigation away unmounts the page.  Its only effect (line 21) returns no
\* cleanup; React detaches the refs of the elements it removes and discards
\* the component's state (written as the initial values from then on).
unmountCapture ==
  /\ mounted
  /\ mounted' = FALSE
  /\ videoSrc' = 0
  /\ capturing' = 0 /\ capturedImages' = <<>>
  /\ currentAngle' = 0 /\ angleClosure' = 0 /\ calls' = 0
  /\ lastMsg' = NoMsg /\ lastOp' = "unmount" /\ fx' = {}
  /\ UNCHANGED <<streams, gumPending, streamRef, facePosts>>
  /\ UNCHANGED hubVars
  /\ UNCHANGED routeVars

NextCapture ==
  \/ \E s \in Students : startCapture(s)
  \/ \E i \in 1..MaxPending : startCapture_granted(i)
  \/ \E i \in 1..MaxPending : startCapture_denied(i)
  \/ captureFrame
  \/ Render
  \/ stopCapture_click
  \/ submitFaces
  \/ \E i \in 1..MaxPosts : submitFaces_ok(i)
  \/ \E i \in 1..MaxPosts : submitFaces_failed(i)
  \/ unmountCapture

SpecCapture == InitCapture /\ [][NextCapture]_vars


(***************************************************************************)
(*                 AttendanceHubPage: live streaming loop                  *)
(***************************************************************************)

\* An HTTP request of the hub in flight: the endpoint, the session id in its
\* URL or body, the number of the log fetch, and for an override the status
\* of the log entry clicked and the status asked for ("": no such field).
Request(kind, sid, n, log, status) ==
  [kind |-> kind, sid |-> sid, n |-> n, log |-> log, status |-> status]

\* The page after its first render and its mount effect,
\* checkActiveSession(); the backend may or may not hold an active session.
InitStream ==
  /\ CameraFresh /\ CaptureFresh /\ HubFresh
  /\ AdminAt("/attendance")
  /\ dbSession \in {0, 1} /\ sidCount = dbSession
  /\ reqs = <<Request("sessions", 0, 0, "", "")>>
  /\ lastOp = "mount" /\ fx = {"get"} /\ lastMsg = NoMsg

ActiveTimers == {k \in 1..Len(sockets) : sockets[k].timer = "active"}
OpenSockets  == {w \in 1..Len(sockets) : sockets[w].state = "OPEN"}

\* The <video> and the feed <img> are rendered only while streaming
\* (lines 210-216); the <canvas> whenever the page is.
FeedRendered == mounted /\ streaming

\* ws.close() (w = 0: nothing): a socket that is connecting or open starts closing
CloseSocket(q, w) ==
  [x \in 1..Len(q) |->
     IF x = w /\ q[x].state \in {"CONNECTING", "OPEN"}
       THEN [q[x] EXCEPT !.state = "CLOSING"]
       ELSE q[x]]

SetSocketState(w, st) == [sockets EXCEPT ![w].state = st]

\* clearInterval(k) (k = 0: nothing)
ClearTimer(q, k) ==
  [x \in 1..Len(q) |-> IF x = k THEN [q[x] EXCEPT !.timer = "cleared"] ELSE q[x]]

\* setStreaming(v): dropped once unmounted.  Leaving or entering streaming
\* removes or creates the <video> and <img> elements, which start empty.
setStreaming(v) ==
  /\ streaming' = IF mounted THEN v ELSE streaming
  /\ videoSrc' = IF mounted /\ v = streaming THEN videoSrc ELSE 0
  /\ feedSrc' = IF mounted /\ v = streaming THEN feedSrc ELSE 0

\* loadLogs(sessionId), up to its await
loadLogs(sessionId, q) ==
  /\ fetchCount < MaxFetches
  /\ fetchCount' = fetchCount + 1
  /\ reqs' = Append(q, Request("logs", sessionId, fetchCount + 1, "", ""))
  /\ Len(reqs') <= MaxReqs

\* loadLogs after its await: setLogs(res.data), or nothing on failure
loadLogs_done(i, ok) ==
  /\ i \in 1..Len(reqs) /\ reqs[i].kind = "logs"
  /\ reqs' = RemoveAt(reqs, i)
  /\ logs' = IF ok /\ mounted THEN reqs[i].n ELSE logs
  /\ lastMsg' = NoMsg /\ lastOp' = "loadLogs.done" /\ fx' = {}
  /\ UNCHANGED <<session, streaming, summary, wsRef, intervalRef, sockets,
                 feedSrc, fetchCount, dbSession, sidCount, stopped>>
  /\ UNCHANGED camVars /\ UNCHANGED captureVars
  /\ UNCHANGED routeVars

\* the roll call's refresh button, rendered while session is set:
\* loadLogs(session.id)
refreshLogs ==
  /\ mounted /\ session # 0 /\ summary = 0
  /\ loadLogs(session, reqs)
  /\ lastMsg' = NoMsg /\ lastOp' = "refreshLogs" /\ fx' = {"get"}
  /\ UNCHANGED <<session, logs, streaming, summary, wsRef, intervalRef, sockets,
                 feedSrc, dbSession, sidCount, stopped>>
  /\ UNCHANGED camVars /\ UNCHANGED captureVars
  /\ UNCHANGED routeVars

\* checkActiveSession after its await: with an active session in the answer,
\* setSession(active) and loadLogs(active.id)
checkActiveSession_done(i, ok) ==
  /\ i \in 1..Len(reqs) /\ reqs[i].kind = "sessions"
  /\ IF ok /\ dbSession # 0
       THEN /\ session' = IF mounted THEN dbSession ELSE session
            /\ loadLogs(dbSession, RemoveAt(reqs, i))
            /\ fx' = {"get"}
       ELSE /\ reqs' = RemoveAt(reqs, i)
            /\ fx' = {}
            /\ UNCHANGED <<session, fetchCount>>
  /\ lastMsg' = NoMsg /\ lastOp' = "checkActiveSession.done"
  /\ UNCHANGED <<logs, streaming, summary, wsRef, intervalRef, sockets,
                 feedSrc, dbSession, sidCount, stopped>>
  /\ UNCHANGED camVars /\ UNCHANGED captureVars
  /\ UNCHANGED routeVars

\* startSession, up to its await.  The Start Session button is rendered
\* while session is null; the summary modal (fixed inset-0) covers the page.
startSession ==
  /\ mounted /\ session = 0 /\ summary = 0
  /\ Len(reqs) < MaxReqs
  /\ reqs' = Append(reqs, Request("start", 0, 0, "", ""))
  /\ lastMsg' = NoMsg /\ lastOp' = "startSession" /\ fx' = {"post"}
  /\ UNCHANGED <<session, logs, streaming, summary, wsRef, intervalRef, sockets, feedSrc, fetchCount, dbSession, sidCount, stopped>>
  /\ UNCHANGED camVars /\ UNCHANGED captureVars
  /\ UNCHANGED routeVars

\* startSession after its await: the backend created a session, or refused
startSession_done(i, ok) ==
  /\ i \in 1..Len(reqs) /\ reqs[i].kind = "start"
  /\ IF ok
       THEN /\ sidCount < MaxSessions
            /\ sidCount' = sidCount + 1
            /\ dbSession' = sidCount + 1
            /\ session' = IF mounted THEN sidCount + 1 ELSE session
            /\ summary' = IF mounted THEN 0 ELSE summary
            /\ loadLogs(sidCount + 1, RemoveAt(reqs, i))
            /\ fx' = {"toast.success", "get"}
       ELSE /\ reqs' = RemoveAt(reqs, i)
            /\ fx' = {"toast.error"}
            /\ UNCHANGED <<session, summary, fetchCount, dbSession, sidCount>>
  /\ lastMsg' = NoMsg /\ lastOp' = "startSession.done"
  /\ UNCHANGED <<logs, streaming, wsRef, intervalRef, sockets, feedSrc, stopped>>
  /\ UNCHANGED camVars /\ UNCHANGED captureVars
  /\ UNCHANGED routeVars

\* Outside effects of a stopStreaming call: one per ref that is set
StopStreamingFx ==
  (IF intervalRef # 0 THEN {"clearInterval"} ELSE {})
    \cup (IF wsRef # 0 THEN {"ws.close"} ELSE {})
    \cup (IF streamRef # 0 THEN {"track.stop"} ELSE {})

\* stopStreaming as it would be without `wsRef.current = null`
stopStreaming_keepsWsRef ==
  /\ intervalRef' = 0
  /\ sockets' = CloseSocket(ClearTimer(sockets, intervalRef), wsRef)
  /\ UNCHANGED wsRef
  /\ streams' = IF streamRef # 0 THEN StopTracks(streamRef) ELSE streams
  /\ streamRef' = 0
  /\ setStreaming(FALSE)
  /\ stopped' = TRUE

\* stopStreaming: the state it sets
stopStreaming ==
  /\ intervalRef' = 0
  /\ sockets' = CloseSocket(ClearTimer(sockets, intervalRef), wsRef)
  /\ wsRef' = 0
  /\ streams' = IF streamRef # 0 THEN StopTracks(streamRef) ELSE streams
  /\ streamRef' = 0
  /\ setStreaming(FALSE)
  /\ stopped' = TRUE

\* the Stop Camera button, or a direct call (also when already stopped)
stopStreaming_click ==
  /\ mounted
  /\ stopStreaming
  /\ lastMsg' = NoMsg /\ lastOp' = "stopStreaming" /\ fx' = StopStreamingFx
  /\ UNCHANGED <<mounted, gumPending>>
  /\ UNCHANGED <<session, logs, summary, reqs, fetchCount, dbSession, sidCount>>
  /\ UNCHANGED captureVars
  /\ UNCHANGED routeVars

\* stopSession, up to its await: stopStreaming(), then POST /attendance/stop
stopSession ==
  /\ mounted /\ session # 0 /\ summary = 0
  /\ Len(reqs) < MaxReqs
  /\ stopStreaming
  /\ reqs' = Append(reqs, Request("stop", 0, 0, "", ""))
  /\ lastMsg' = NoMsg /\ lastOp' = "stopSession" /\ fx' = StopStreamingFx \cup {"post"}
  /\ UNCHANGED <<mounted, gumPending>>
  /\ UNCHANGED <<session, logs, summary, fetchCount, dbSession, sidCount>>
  /\ UNCHANGED captureVars
  /\ UNCHANGED routeVars

\* stopSession after its await: the backend ended its active session and
\* answered with the summary, or refused
stopSession_done(i, ok) ==
  /\ i \in 1..Len(reqs) /\ reqs[i].kind = "stop"
  /\ reqs' = RemoveAt(reqs, i)
  /\ IF ok
       THEN /\ dbSession # 0
            /\ dbSession' = 0
            /\ summary' = IF mounted THEN dbSession ELSE summary
            /\ session' = IF mounted THEN 0 ELSE session
            /\ fx' = {"toast.success"}
       ELSE /\ fx' = {"toast.error"}
            /\ UNCHANGED <<session, summary, dbSession>>
  /\ lastMsg' = NoMsg /\ lastOp' = "stopSession.done"
  /\ UNCHANGED <<logs, streaming, wsRef, intervalRef, sockets, feedSrc,
                 fetchCount, sidCount, stopped>>
  /\ UNCHANGED camVars /\ UNCHANGED captureVars
  /\ UNCHANGED routeVars

\* the summary modal's Close button
closeSummary ==
  /\ mounted /\ summary # 0
  /\ summary' = 0
  /\ lastMsg' = NoMsg /\ lastOp' = "closeSummary" /\ fx' = {}
  /\ UNCHANGED <<session, logs, streaming, wsRef, intervalRef, sockets,
                 feedSrc, reqs, fetchCount, dbSession, sidCount, stopped>>
  /\ UNCHANGED camVars /\ UNCHANGED captureVars
  /\ UNCHANGED routeVars

\* newStatus of toggleStatus: the opposite of the log entry's status
Opposite(status) == IF status = "present" THEN "absent" ELSE "present"

\* toggleStatus(log), up to its await.  The Mark Present / Mark Absent button
\* of a log entry is rendered while session is set and the list shown is not
\* empty; status is the status of the entry clicked.
toggleStatus(status) ==
  /\ mounted /\ session # 0 /\ logs # 0 /\ summary = 0
  /\ Len(reqs) < MaxReqs
  /\ reqs' = Append(reqs, Request("override", session, 0, status, Opposite(status)))
  /\ lastMsg' = NoMsg /\ lastOp' = "toggleStatus" /\ fx' = {"post"}
  /\ UNCHANGED <<session, logs, streaming, summary, wsRef, intervalRef, sockets,
                 feedSrc, fetchCount, dbSession, sidCount, stopped>>
  /\ UNCHANGED camVars /\ UNCHANGED captureVars
  /\ UNCHANGED routeVars

\* the catch block of toggleStatus as it would be if it also emptied the list
toggleStatus_done_clearsLogs(i, ok) ==
  /\ i \in 1..Len(reqs) /\ reqs[i].kind = "override"
  /\ IF ok
       THEN /\ loadLogs(reqs[i].sid, RemoveAt(reqs, i))
            /\ fx' = {"get", "toast.success"}
            /\ UNCHANGED logs
       ELSE /\ reqs' = RemoveAt(reqs, i)
            /\ fx' = {"toast.error"}
            /\ logs' = 0
            /\ UNCHANGED fetchCount
  /\ lastMsg' = NoMsg /\ lastOp' = "toggleStatus.done"
  /\ UNCHANGED <<session, streaming, summary, wsRef, intervalRef, sockets,
                 feedSrc, dbSession, sidCount, stopped>>
  /\ UNCHANGED camVars /\ UNCHANGED captureVars
  /\ UNCHANGED routeVars

\* toggleStatus after its await: on success loadLogs(session.id), with the
\* session of the closure, and a notification; on failure the notification
toggleStatus_done(i, ok) ==
  /\ i \in 1..Len(reqs) /\ reqs[i].kind = "override"
  /\ IF ok
       THEN /\ loadLogs(reqs[i].sid, RemoveAt(reqs, i))
            /\ fx' = {"get", "toast.success"}
       ELSE /\ reqs' = RemoveAt(reqs, i)
            /\ fx' = {"toast.error"}
            /\ UNCHANGED fetchCount
  /\ lastMsg' = NoMsg /\ lastOp' = "toggleStatus.done"
  /\ UNCHANGED <<session, logs, streaming, summary, wsRef, intervalRef, sockets,
                 feedSrc, dbSession, sidCount, stopped>>
  /\ UNCHANGED camVars /\ UNCHANGED captureVars
  /\ UNCHANGED routeVars

\* startStreaming as it would be without the `!session` check
startStreaming_noSessionCheck ==
  /\ mounted /\ ~streaming /\ summary = 0
  /\ Len(gumPending) < MaxPending
  /\ gumPending' = Append(gumPending, session)
  /\ fx' = {"getUserMedia"}
  /\ stopped' = FALSE
  /\ lastMsg' = NoMsg /\ lastOp' = "startStreaming"
  /\ UNCHANGED <<mounted, streams, streamRef, videoSrc>>
  /\ UNCHANGED <<session, logs, streaming, summary, wsRef, intervalRef, sockets, feedSrc, reqs, fetchCount, dbSession, sidCount>>
  /\ UNCHANGED captureVars
  /\ UNCHANGED routeVars

\* startStreaming, up to `await getUserMedia`.  The Start Camera button is
\* rendered while session is set and streaming is false; the handler's own
\* check covers a call with no session.
startStreaming ==
  /\ mounted /\ ~streaming /\ summary = 0
  /\ IF session = 0
       THEN /\ fx' = {"toast.error"}
            /\ UNCHANGED <<gumPending, stopped>>
       ELSE /\ Len(gumPending) < MaxPending
            /\ gumPending' = Append(gumPending, session)
            /\ fx' = {"getUserMedia"}
            /\ stopped' = FALSE
  /\ lastMsg' = NoMsg /\ lastOp' = "startStreaming"
  /\ UNCHANGED <<mounted, streams, streamRef, videoSrc>>
  /\ UNCHANGED <<session, logs, streaming, summary, wsRef, intervalRef, sockets, feedSrc, reqs, fetchCount, dbSession, sidCount>>
  /\ UNCHANGED captureVars
  /\ UNCHANGED routeVars

\* startStreaming after the await, access granted: the stream is stored in
\* streamRef and attached if the <video> exists, the WebSocket is created,
\* stored in wsRef, and given its four handlers.
startStreaming_granted(i) ==
  /\ i \in 1..Len(gumPending)
  /\ Len(streams) < MaxStreams
  /\ gumPending' = RemoveAt(gumPending, i)
  /\ streams' = Append(streams, "live")
  /\ streamRef' = Len(streams) + 1
  /\ videoSrc' = IF FeedRendered THEN Len(streams) + 1 ELSE videoSrc
  /\ sockets' = Append(sockets, [state |-> "CONNECTING", sess |-> gumPending[i],
                                 timer |-> "none"])
  /\ wsRef' = Len(sockets) + 1
  /\ lastMsg' = NoMsg /\ lastOp' = "startStreaming.granted" /\ fx' = {"new WebSocket"}
  /\ UNCHANGED <<session, logs, streaming, summary, intervalRef, feedSrc,
                 reqs, fetchCount, dbSession, sidCount, stopped>>
  /\ UNCHANGED mounted /\ UNCHANGED captureVars
  /\ UNCHANGED routeVars

\* startStreaming after the await, access denied (the catch block)
startStreaming_denied(i) ==
  /\ i \in 1..Len(gumPending)
  /\ gumPending' = RemoveAt(gumPending, i)
  /\ lastMsg' = NoMsg /\ lastOp' = "startStreaming.denied" /\ fx' = {"toast.error"}
  /\ UNCHANGED <<mounted, streams, streamRef, videoSrc>>
  /\ UNCHANGED hubVars /\ UNCHANGED captureVars
  /\ UNCHANGED routeVars

\* ws.onopen: the connection of socket w is established
ws_onopen(w) ==
  /\ w \in 1..Len(sockets) /\ sockets[w].state = "CONNECTING"
  /\ sockets' = [sockets EXCEPT ![w].state = "OPEN", ![w].timer = "active"]
  /\ setStreaming(TRUE)
  /\ intervalRef' = w
  /\ lastMsg' = NoMsg /\ lastOp' = "ws.onopen" /\ fx' = {"toast.success", "setInterval"}
  /\ UNCHANGED <<mounted, streams, gumPending, streamRef>>
  /\ UNCHANGED <<session, logs, summary, wsRef, reqs, fetchCount, dbSession,
                 sidCount, stopped>>
  /\ UNCHANGED captureVars
  /\ UNCHANGED routeVars

\* ws.onclose: setStreaming(false)
ws_onclose == setStreaming(FALSE)

\* ws.onerror: the notification
ws_onerror == {"toast.error"}

\* The connection of socket w fails while connecting or open: the browser
\* fires error, then close.
ws_error(w) ==
  /\ w \in 1..Len(sockets) /\ sockets[w].state \in {"CONNECTING", "OPEN"}
  /\ sockets' = SetSocketState(w, "CLOSED")
  /\ ws_onclose
  /\ lastMsg' = NoMsg /\ lastOp' = "ws.onerror" /\ fx' = ws_onerror
  /\ UNCHANGED <<mounted, streams, gumPending, streamRef>>
  /\ UNCHANGED <<session, logs, summary, wsRef, intervalRef, reqs,
                 fetchCount, dbSession, sidCount, stopped>>
  /\ UNCHANGED captureVars
  /\ UNCHANGED routeVars

\* The remote side closes the open connection of socket w, or the closing
\* handshake that ws.close() started completes: the browser fires close.
ws_closed(w) ==
  /\ w \in 1..Len(sockets) /\ sockets[w].state \in {"OPEN", "CLOSING"}
  /\ sockets' = SetSocketState(w, "CLOSED")
  /\ ws_onclose
  /\ lastMsg' = NoMsg /\ lastOp' = IF sockets[w].state = "OPEN" THEN "ws.onclose.remote" ELSE "ws.onclose"
  /\ fx' = {}
  /\ UNCHANGED <<mounted, streams, gumPending, streamRef>>
  /\ UNCHANGED <<session, logs, summary, wsRef, intervalRef, reqs,
                 fetchCount, dbSession, sidCount, stopped>>
  /\ UNCHANGED captureVars
  /\ UNCHANGED routeVars

\* Messages the backend pushes: frame 0 is a message without a frame field,
\* detections is the length of its detections list.
Messages == [frame : 0..MaxFrames, detections : 0..1]

\* ws.onmessage: a message is delivered on the open socket w
ws_onmessage(w, data) ==
  /\ w \in 1..Len(sockets) /\ sockets[w].state = "OPEN"
  /\ lastMsg' = data
  /\ feedSrc' = IF data.frame # 0 /\ FeedRendered THEN data.frame ELSE feedSrc
  /\ IF data.detections > 0
       THEN /\ loadLogs(sockets[w].sess, reqs)
            /\ fx' = {"toast.success", "get"}
       ELSE /\ fx' = {}
            /\ UNCHANGED <<reqs, fetchCount>>
  /\ lastOp' = "ws.onmessage"
  /\ UNCHANGED <<session, logs, streaming, summary, wsRef, intervalRef, sockets, dbSession, sidCount, stopped>>
  /\ UNCHANGED camVars /\ UNCHANGED captureVars
  /\ UNCHANGED routeVars

\* sendFrame as it would be without the readyState check
sendFrame_noReadyStateCheck(k) ==
  /\ k \in ActiveTimers
  /\ fx' = IF FeedRendered /\ wsRef # 0 THEN {"ws.send"} ELSE {}
  /\ lastMsg' = NoMsg /\ lastOp' = "sendFrame"
  /\ UNCHANGED hubVars /\ UNCHANGED camVars /\ UNCHANGED captureVars
  /\ UNCHANGED routeVars

\* sendFrame, called by the tick of timer k: it returns unless the <video>,
\* the <canvas> and wsRef are set and the socket in wsRef is open; else it
\* sends one frame tagged with the session its closure holds.
sendFrame(k) ==
  /\ k \in ActiveTimers
  /\ fx' = IF FeedRendered /\ wsRef # 0 /\ sockets[wsRef].state = "OPEN"
             THEN {"ws.send"} ELSE {}
  /\ lastMsg' = NoMsg /\ lastOp' = "sendFrame"
  /\ UNCHANGED hubVars /\ UNCHANGED camVars /\ UNCHANGED captureVars
  /\ UNCHANGED routeVars

\* Navigation away unmounts the page: the mount effect's cleanup calls
\* stopStreaming(), and React removes the elements and discards the
\* component's state (written as the initial values from then on).
unmountHub ==
  /\ mounted
  /\ stopStreaming
  /\ mounted' = FALSE
  /\ session' = 0 /\ logs' = 0 /\ summary' = 0
  /\ lastMsg' = NoMsg /\ lastOp' = "unmount" /\ fx' = StopStreamingFx
  /\ UNCHANGED gumPending
  /\ UNCHANGED <<reqs, fetchCount, dbSession, sidCount>>
  /\ UNCHANGED captureVars
  /\ UNCHANGED routeVars

NextStream ==
  \/ \E i \in 1..MaxReqs, ok \in BOOLEAN : checkActiveSession_done(i, ok)
  \/ \E i \in 1..MaxReqs, ok \in BOOLEAN : loadLogs_done(i, ok)
  \/ refreshLogs
  \/ startSession
  \/ \E i \in 1..MaxReqs, ok \in BOOLEAN : startSession_done(i, ok)
  \/ stopSession
  \/ \E i \in 1..MaxReqs, ok \in BOOLEAN : stopSession_done(i, ok)
  \/ closeSummary
  \/ \E status \in {"present", "absent"} : toggleStatus(status)
  \/ \E i \in 1..MaxReqs, ok \in BOOLEAN : toggleStatus_done(i, ok)
  \/ startStreaming
  \/ \E i \in 1..MaxPending : startStreaming_granted(i)
  \/ \E i \in 1..MaxPending : startStreaming_denied(i)
  \/ \E w \in 1..MaxStreams : ws_onopen(w)
  \/ \E w \in 1..MaxStreams : ws_error(w)
  \/ \E w \in 1..MaxStreams : ws_closed(w)
  \/ \E w \in 1..MaxStreams, data \in Messages : ws_onmessage(w, data)
  \/ \E k \in 1..MaxStreams : sendFrame(k)
  \/ stopStreaming_click
  \/ unmountHub

SpecStream == InitStream /\ [][NextStream]_vars


(***************************************************************************)
(*                     App: routes and ProtectedRoute                      *)
(***************************************************************************)

\* What a route renders: a page, the loading spinner, or <Navigate to>.
Page(name)   == [kind |-> "page", to |-> name]
Spinner      == [kind |-> "spinner", to |-> ""]
Navigate(to) == [kind |-> "navigate", to |-> to]

\* The paths with a <Route> of their own; "/" stands for every other path,
\* which only path="*" matches.
AdminPaths == {"/dashboard", "/students", "/attendance"}
Paths      == {"/login", "/student-view", "/"} \cup AdminPaths

\* useAuth().user and useAuth().isAdmin: the current user and role
Users   == {"none", "admin", "student"}
isAdmin == user = "admin"

\* ProtectedRoute as it would be without the adminOnly check
ProtectedRoute_noAdminCheck(children, adminOnly) ==
  IF loading THEN Spinner
  ELSE IF user = "none" THEN Navigate("/login")
  ELSE children

\* ProtectedRoute({ children, adminOnly })
ProtectedRoute(children, adminOnly) ==
  IF loading THEN Spinner
  ELSE IF user = "none" THEN Navigate("/login")
  ELSE IF adminOnly /\ ~isAdmin THEN Navigate("/student-view")
  ELSE children

\* App: the element <Routes> renders for the current location
App ==
  CASE path = "/login"        -> Page("LoginPage")
    [] path = "/dashboard"    -> ProtectedRoute(Page("DashboardPage"), TRUE)
    [] path = "/students"     -> ProtectedRoute(Page("StudentManagementPage"), TRUE)
    [] path = "/attendance"   -> ProtectedRoute(Page("AttendanceHubPage"), TRUE)
    [] path = "/student-view" -> ProtectedRoute(Page("StudentViewPage"), FALSE)
    [] OTHER -> IF user # "none"
                  THEN Navigate(IF user = "admin" THEN "/dashboard"
                                                  ELSE "/student-view")
                  ELSE Navigate("/login")

\* The application is opened at any location; the auth context is still
\* reading the stored credentials.
InitRoute ==
  /\ path \in Paths /\ user \in Users /\ loading = TRUE /\ redirects = 0
  /\ mounted = FALSE /\ streams = <<>> /\ gumPending = <<>>
  /\ streamRef = 0 /\ videoSrc = 0
  /\ CaptureFresh /\ HubFresh
  /\ reqs = <<>> /\ dbSession = 0 /\ sidCount = 0
  /\ lastOp = "open" /\ fx = {} /\ lastMsg = NoMsg

\* The auth context finishes initialising from the stored credentials: the
\* user they name, or none.
hydrate(u) ==
  /\ loading
  /\ loading' = FALSE /\ user' = u
  /\ lastMsg' = NoMsg /\ lastOp' = "hydrate" /\ fx' = {}
  /\ UNCHANGED <<path, redirects>>
  /\ UNCHANGED camVars /\ UNCHANGED captureVars /\ UNCHANGED hubVars

\* The location changes by a link, the address bar or history.
visit(p) ==
  /\ path' = p /\ redirects' = 0
  /\ lastMsg' = NoMsg /\ lastOp' = "visit" /\ fx' = {}
  /\ UNCHANGED <<user, loading>>
  /\ UNCHANGED camVars /\ UNCHANGED captureVars /\ UNCHANGED hubVars

\* A rendered <Navigate to replace /> changes the location.
redirect ==
  /\ App.kind = "navigate"
  /\ redirects < MaxRedirects
  /\ path' = App.to /\ redirects' = redirects + 1
  /\ lastMsg' = NoMsg /\ lastOp' = "redirect" /\ fx' = {}
  /\ UNCHANGED <<user, loading>>
  /\ UNCHANGED camVars /\ UNCHANGED captureVars /\ UNCHANGED hubVars

\* LoginPage.handleSubmit with accepted credentials: login() sets the user,
\* then navigate() by role.  /login is not behind ProtectedRoute: the form
\* is there while the auth context is still loading.
login(role) ==
  /\ App = Page("LoginPage")
  /\ user' = role
  /\ path' = IF role = "admin" THEN "/dashboard" ELSE "/student-view"
  /\ redirects' = 0
  /\ lastMsg' = NoMsg /\ lastOp' = "login" /\ fx' = {"toast.success"}
  /\ UNCHANGED loading
  /\ UNCHANGED camVars /\ UNCHANGED captureVars /\ UNCHANGED hubVars

\* LoginPage.handleSubmit with rejected credentials (the catch block)
login_failed ==
  /\ App = Page("LoginPage")
  /\ lastMsg' = NoMsg /\ lastOp' = "login.failed" /\ fx' = {"toast.error"}
  /\ UNCHANGED routeVars
  /\ UNCHANGED camVars /\ UNCHANGED captureVars /\ UNCHANGED hubVars

\* Navbar.handleLogout, on a page that renders the Navbar: logout() clears
\* the user, then navigate('/login').
logout ==
  /\ App.kind = "page" /\ App # Page("LoginPage")
  /\ user' = "none"
  /\ path' = "/login" /\ redirects' = 0
  /\ lastMsg' = NoMsg /\ lastOp' = "logout" /\ fx' = {}
  /\ UNCHANGED loading
  /\ UNCHANGED camVars /\ UNCHANGED captureVars /\ UNCHANGED hubVars

NextRoute ==
  \/ \E u \in Users : hydrate(u)
  \/ \E p \in Paths : visit(p)
  \/ redirect
  \/ \E role \in {"admin", "student"} : login(role)
  \/ login_failed
  \/ logout

SpecRoute == InitRoute /\ [][NextRoute]_vars

(***************************************************************************)
(*                    Claims about the face-capture page                   *)
(***************************************************************************)

\* No capture is in progress: the modal is closed, or the page is gone.
CaptureEnded == ~mounted \/ capturing = 0

\* C1: every path that ends a capture (successful submitFaces, stopCapture,
\* unmount) releases the camera: once the capture has ended and no
\* getUserMedia or submit request is pending, no stream the page acquired
\* still has live tracks.
C1_EndedCaptureHoldsNoCamera ==
  (CaptureEnded /\ gumPending = <<>> /\ facePosts = <<>>) => LiveStreams = {}

\* C2: at most one camera acquisition (a granted stream whose tracks are not
\* stopped) is open at a time per page instance.
C2_AtMostOneLiveStream == Cardinality(LiveStreams) <= 1

\* The idle capture state stopCapture leaves.
IdleCapture ==
  /\ streamRef = 0 /\ capturing = 0 /\ capturedImages = <<>> /\ currentAngle = 0

\* C7: cancel (stopCapture) and a successful submitFaces both end in the idle
\* capture state from any prior state: the stream streamRef held has its
\* tracks stopped, streamRef and capturing are null, the captured list is
\* empty and the angle index is 0; a second cancel right after changes
\* nothing and stops nothing.
C7_CancelAndSubmitEndIdle ==
  [][ /\ (mounted /\ lastOp' \in {"stopCapture", "submitFaces.ok"})
         => /\ IdleCapture'
            /\ streamRef # 0 => streams'[streamRef] = "stopped"
      /\ (lastOp = "stopCapture" /\ lastOp' = "stopCapture")
         => /\ fx' = {}
            /\ UNCHANGED camVars /\ UNCHANGED captureVars
    ]_vars

\* C7 witness: a successful submit has just released a held camera.
C7_Witness ==
  /\ lastOp = "submitFaces.ok" /\ "track.stop" \in fx
  /\ mounted /\ IdleCapture /\ LiveStreams = {}

\* C8: submitFaces with zero captured images fails locally (an error
\* notification), performs no network call and leaves capturing, the
\* captured list, the angle index and the camera unchanged.
C8_EmptySubmitIsLocal ==
  [][ (lastOp' = "submitFaces" /\ Len(capturedImages) = 0)
        => /\ fx' = {"toast.error"}
           /\ UNCHANGED camVars /\ UNCHANGED captureVars
    ]_vars

\* C8 witness: submitFaces was just called with a camera held and nothing
\* captured.
C8_Witness ==
  /\ lastOp = "submitFaces" /\ capturedImages = <<>>
  /\ capturing # 0 /\ streamRef # 0 /\ facePosts = <<>>

\* C9: for any sequence of at most CAPTURE_ANGLES.length captureFrame calls
\* of one capture (with the camera attached to the preview), the captured
\* image count equals the number of calls and the angle index equals the
\* number of calls, also when calls are handled before the re-render.
C9_CountAndAngleEqualCalls ==
  (mounted /\ capturing # 0 /\ videoSrc # 0 /\ calls <= Len(CAPTURE_ANGLES))
    => /\ Len(capturedImages) = calls
       /\ currentAngle = calls

\* C13: a failed submitFaces request leaves the capture intact for a retry:
\* the failure's handler changes neither capturing, the captured list, the
\* angle index nor the camera (a stream held and live stays so), and a
\* submitFaces call right after it sends the whole captured list, in order,
\* for the same student, as one request.
C13_FailedSubmitKeepsCapture ==
  [][ /\ lastOp' = "submitFaces.failed"
         => /\ UNCHANGED camVars
            /\ UNCHANGED <<capturing, capturedImages, currentAngle>>
      /\ (lastOp = "submitFaces.failed" /\ lastOp' = "submitFaces"
            /\ capturedImages # <<>>)
         => facePosts' = Append(facePosts, [student |-> capturing,
                                            images |-> capturedImages])
    ]_vars

\* C13 witness: a submit of two images has just failed with the capture
\* open and its camera live.
C13_Witness ==
  /\ lastOp = "submitFaces.failed" /\ mounted /\ capturing # 0
  /\ Len(capturedImages) >= 2 /\ facePosts = <<>>
  /\ streamRef # 0 /\ streams[streamRef] = "live" /\ videoSrc = streamRef

\* C14: captureFrame is a no-op while there is no active camera stream
\* (streamRef null, as while getUserMedia is pending): it appends no image
\* and does not advance the angle index.
C14_CaptureWithoutStreamIsNoOp ==
  [][ (lastOp' = "captureFrame" /\ streamRef = 0)
        => UNCHANGED <<capturedImages, currentAngle>>
    ]_vars

\* C15: a startCapture whose camera request is denied never enters capture
\* state: capturing is null in the state the denial arrives in, and after the
\* denial capturing is null, no camera is held and the captured list is empty.
C15_DeniedStartNeverCaptures ==
  [][ lastOp' = "startCapture.denied"
        => /\ capturing = 0
           /\ capturing' = 0 /\ streamRef' = 0 /\ capturedImages' = <<>>
    ]_vars

\* C21: the completion of a submitFaces request changes capture state only
\* for the capture that issued it: a success response that arrives while a
\* capture for another student is open neither stops that capture's camera
\* nor clears its images, angle index or student id.
C21_LateResponseSparesNewCapture ==
  [][ \A i \in 1..Len(facePosts) :
        ( /\ lastOp' = "submitFaces.ok" /\ facePosts' = RemoveAt(facePosts, i)
          /\ mounted /\ capturing # 0 /\ facePosts[i].student # capturing )
          => UNCHANGED <<capturing, capturedImages, currentAngle, streamRef,
                         streams>>
    ]_vars


(***************************************************************************)
(*                    Claims about the streaming loop                      *)
(***************************************************************************)

\* Nothing of the loop is left running: no timer, no open connection, no
\* live camera track.
AllReleased == ActiveTimers = {} /\ OpenSockets = {} /\ LiveStreams = {}

\* C3: termination by stopStreaming (also as called by stopSession) or by the
\* mount effect's cleanup cancels the timer, closes the connection and
\* releases the camera in whatever state the loop is: after it, and with no
\* new startStreaming call, no timer is active, no connection is open and no
\* camera track is live.
C3_TerminationReleasesAll == stopped => AllReleased

\* C4: a connection error (onerror) or the connection closing from the
\* remote side terminates the loop as an explicit stop does: once the event
\* is handled the timer is cancelled, the connection closed and the camera
\* released.
C4_ConnectionErrorTerminates ==
  lastOp \in {"ws.onerror", "ws.onclose.remote"} => AllReleased

\* C5: startStreaming with no active session (session null) fails at once
\* with an error notification and has no side effect: no camera request, no
\* websocket, no timer, and session, logs, streaming, summary unchanged.
C5_StartWithoutSessionIsInert ==
  [][ (lastOp' = "startStreaming" /\ session = 0)
        => /\ fx' = {"toast.error"}
           /\ UNCHANGED camVars /\ UNCHANGED hubVars
    ]_vars

\* C5 witness: startStreaming was just called with session null.
C5_Witness ==
  lastOp = "startStreaming" /\ session = 0 /\ fx = {"toast.error"} /\ mounted

\* C6: stopStreaming is idempotent: a second call right after a first leaves
\* the state as the first left it and performs no clearInterval, no
\* connection close and no track stop.
C6_StopTwiceIsIdle ==
  [][ (lastOp = "stopStreaming" /\ lastOp' = "stopStreaming")
        => /\ fx' = {}
           /\ UNCHANGED camVars /\ UNCHANGED hubVars
    ]_vars

\* C6 witness: a stopStreaming call that found nothing to do, after one that
\* stopped a timer, closed a connection (still closing) and stopped a camera.
C6_Witness ==
  /\ lastOp = "stopStreaming" /\ fx = {}
  /\ \E w \in 1..Len(sockets) : sockets[w].state = "CLOSING"
  /\ \E k \in 1..Len(sockets) : sockets[k].timer = "cleared"
  /\ \E s \in 1..Len(streams) : streams[s] = "stopped"
  /\ AllReleased

\* C10: the displayed annotated frame equals the frame of the message that
\* arrived last with a frame field: no frame-carrying message is dropped.
C10_FrameMessageIsDisplayed ==
  (mounted /\ lastOp = "ws.onmessage" /\ lastMsg.frame # 0)
    => feedSrc = lastMsg.frame

\* C11: toggleStatus requests the opposite status for the (active session,
\* student) pair and changes nothing in the view; its completion never
\* changes session, logs, streaming or summary, and when it failed it
\* surfaces an error and issues no fetch; the logs shown change only when a
\* log fetch completes (or the page is discarded), never optimistically.
C11_OverrideIsNeverOptimistic ==
  [][ /\ lastOp' = "toggleStatus"
         => /\ UNCHANGED <<session, logs, streaming, summary>>
            /\ \E status \in {"present", "absent"} :
                 \E newStatus \in {"present", "absent"} \ {status} :
                   reqs' = Append(reqs, Request("override", session, 0, status,
                                                newStatus))
      /\ lastOp' = "toggleStatus.done"
         => /\ UNCHANGED <<session, logs, streaming, summary>>
            /\ "toast.success" \notin fx'
                 => fx' = {"toast.error"} /\ UNCHANGED fetchCount
      /\ logs' # logs => lastOp' \in {"loadLogs.done", "unmount"}
    ]_vars

\* C11 witness: an override request has just failed on a page that shows
\* fetched logs of its active session.
C11_Witness ==
  /\ lastOp = "toggleStatus.done" /\ fx = {"toast.error"}
  /\ mounted /\ session # 0 /\ logs # 0

\* What the hub page shows and holds: its view state and the resources of
\* the streaming loop.
HubView ==
  <<session, logs, streaming, summary, streamRef, wsRef, intervalRef,
    streams, sockets>>

\* C12: the backend-calling handlers mutate local state only after the call
\* succeeded: the step that issues the request, and the step that handles
\* its failure, leave view state and held resources as they were.
C12_NoMutationBeforeSuccess ==
  [][ (\/ lastOp' \in {"startSession", "stopSession", "toggleStatus"}
       \/ /\ lastOp' \in {"startSession.done", "stopSession.done",
                            "toggleStatus.done"}
          /\ fx' = {"toast.error"})
        => UNCHANGED HubView
    ]_vars

\* No log fetch is awaiting its response.
NoFetchOutstanding == \A i \in 1..Len(reqs) : reqs[i].kind # "logs"

\* C22: when several log fetches are outstanding and their responses arrive
\* in any order, the logs shown once all have completed are never an older
\* snapshot than one already shown: the completion that leaves no fetch
\* outstanding does not replace the shown response by that of a fetch issued
\* earlier.
C22_LatestFetchIsShown ==
  [][ (mounted /\ lastOp' = "loadLogs.done" /\ NoFetchOutstanding')
        => logs' >= logs
    ]_vars

\* The connections the page created that are connecting or open.
LiveSockets ==
  {w \in 1..Len(sockets) : sockets[w].state \in {"CONNECTING", "OPEN"}}

\* C16: one connection per streaming session: at most one websocket the page
\* created is connecting or open, and it is the one wsRef references, also
\* when startStreaming is called again before onopen set streaming.
C16_OneConnectionInWsRef ==
  /\ Cardinality(LiveSockets) <= 1
  /\ \A w \in LiveSockets : w = wsRef

\* C17: on a timer tick a frame is sent only if the connection wsRef
\* references is open at that tick, and at most one; a tick changes no state,
\* so a skipped send is not queued: frames sent never exceed the ticks that
\* fired while the connection was open.
C17_SendOnlyWhenOpen ==
  [][ lastOp' = "sendFrame"
        => /\ fx' \in {{}, {"ws.send"}}
           /\ fx' = {"ws.send"} => (wsRef # 0 /\ sockets[wsRef].state = "OPEN")
           /\ UNCHANGED hubVars /\ UNCHANGED camVars
    ]_vars

\* C17 witness: a tick fired with the page streaming while the connection in
\* wsRef was still connecting, and sent nothing.
C17_Witness ==
  /\ lastOp = "sendFrame" /\ fx = {} /\ FeedRendered
  /\ wsRef # 0 /\ sockets[wsRef].state = "CONNECTING"

\* C18: whenever sendFrame sends, the <video> it captures from has the
\* acquired camera stream as its source.
C18_SentFrameComesFromCamera ==
  (lastOp = "sendFrame" /\ "ws.send" \in fx)
    => (videoSrc # 0 /\ videoSrc = streamRef)

\* C19: at most one periodic frame timer is active, and an active timer is
\* the one recorded in intervalRef.
C19_OneTimerInIntervalRef ==
  /\ Cardinality(ActiveTimers) <= 1
  /\ \A k \in ActiveTimers : k = intervalRef

\* C20: while the view holds no session (before one is started, or once
\* stopSession has succeeded) no camera is held and no frame is sent.
C20_NoSessionNoCameraNoFrame ==
  (mounted /\ session = 0)
    => /\ LiveStreams = {}
       /\ ~(lastOp = "sendFrame" /\ "ws.send" \in fx)

\* C23: the close event of a connection that is no longer the current one
\* never sets streaming to false: whenever the connection wsRef references
\* is open with its timer running, streaming is true.
C23_CurrentConnectionMeansStreaming ==
  ( /\ mounted /\ wsRef # 0
    /\ sockets[wsRef].state = "OPEN" /\ sockets[wsRef].timer = "active" )
    => streaming


(***************************************************************************)
(*                      Claims about the routing guard                     *)
(***************************************************************************)

\* C24: the content of an admin-only route is rendered only when auth
\* loading has finished and the user is present and an admin, that of
\* /student-view only when loading has finished and a user is present; once
\* loading has finished a protected route sends a missing user to /login and
\* an admin-only route sends a non-admin to /student-view; a chain of
\* redirects ends at a rendered page after at most two redirects.
C24_RoutingGuard ==
  /\ (path \in AdminPaths /\ App.kind = "page")
       => (~loading /\ user = "admin")
  /\ (path = "/student-view" /\ App.kind = "page")
       => (~loading /\ user # "none")
  /\ (path \in AdminPaths \cup {"/student-view"} /\ ~loading /\ user = "none")
       => App = Navigate("/login")
  /\ (path \in AdminPaths /\ ~loading /\ user = "student")
       => App = Navigate("/student-view")
  /\ redirects <= 2
  /\ redirects = 2 => App.kind # "navigate"

\* C24 witness: a student who asked for an admin-only page has been
\* redirected and sees the student view.
C24_Witness ==
  /\ lastOp = "redirect" /\ redirects = 1 /\ user = "student" /\ ~loading
  /\ App = Page("StudentViewPage")

=============================================================================
